---------------------------- MODULE Spec2Model ----------------------------
(***************************************************************************)
(* x68k-hid: USB HID keyboard/mouse to Sharp X68000 bridge (src/main.c).   *)
(* The model covers the x68-HID code of main.c: the GPIO interrupt         *)
(* handler, the host command parser (uartISR), the mouse framer            *)
(* (sendMouse), the keyboard diff engine (processKeybReport,               *)
(* compareKeybReports, sendKeycode), the tick (processKeybAndMouse) and    *)
(* the mouse accumulator (processMouseReport).                             *)
(***************************************************************************)
EXTENDS Integers, Sequences, FiniteSets, TLC

\* ------------------------------------------------------------------------
\* Program constants
\* ------------------------------------------------------------------------
MSCTRL_GPIO == 3
READY_GPIO == 5

HID_KEY_NONE == \h00
HID_KEY_A == \h04

KEYB_MSCTRL == \b01000000
KEYB_MSCTRL_MASK == \b11111000
KEYB_LED_BRIGHTNESS == \b01010100
KEYB_LED_BRIGHTNESS_MASK == \b11111100
KEYB_KEY_INHIBIT == \b01011000
KEYB_KEY_INHIBIT_MASK == \b11111000
KEYB_REPEAT_DELAY == \b01100000
KEYB_REPEAT_INTERVAL == \b01110000
KEYB_REPEAT_MASK == \b11110000
KEYB_LED_CTRL_MASK == \b10000000

\* Number of keycode slots of hid_keyboard_report_t (sizeof(report->keycode)).
NumSlots == 6

modifierScans ==
  << \h71, \h70, \h56, \h55, \h59, \h70, \h57, \h58 >>

keycodeScans ==
  << \h1e, \h2e, \h2c, \h20, \h13, \h21, \h22, \h23, \h18, \h24,
     \h25, \h26, \h30, \h2f, \h19, \h1a, \h11, \h14, \h1f, \h15,
     \h17, \h2d, \h12, \h2b, \h16, \h2a, \h02, \h03, \h04, \h05,
     \h06, \h07, \h08, \h09, \h0a, \h0b, \h1d, \h01, \h0f, \h10,
     \h35, \h0c, \h0d, \h1b, \h1c, \h0e, \h29, \h27, \h28, \h60,
     \h31, \h32, \h33, \h5d, \h63, \h64, \h65, \h66, \h67, \h68,
     \h69, \h6a, \h6b, \h6c, \h5a, \h5b, \h62, \h54, \h61, \h5e,
     \h36, \h38, \h37, \h3a, \h39, \h3d, \h3b, \h3e, \h3c, \h3f,
     \h40, \h41, \h42, \h46, \h4e, \h4b, \h4c, \h4d, \h47, \h48,
     \h49, \h43, \h44, \h45, \h4f, \h51, \h0e >>

\* ------------------------------------------------------------------------
\* C integer arithmetic
\* ------------------------------------------------------------------------
\* bit i of the byte v
Bit(v, i) == (v \div 2^i) % 2

\* a & b, a | b, a ^ b on 8-bit operands
BitAnd(a, b) ==
  Bit(a, 0) * Bit(b, 0) + 2 * Bit(a, 1) * Bit(b, 1)
    + 4 * Bit(a, 2) * Bit(b, 2) + 8 * Bit(a, 3) * Bit(b, 3)
    + 16 * Bit(a, 4) * Bit(b, 4) + 32 * Bit(a, 5) * Bit(b, 5)
    + 64 * Bit(a, 6) * Bit(b, 6) + 128 * Bit(a, 7) * Bit(b, 7)

BitOr(a, b) == a + b - BitAnd(a, b)

BitXor(a, b) == a + b - 2 * BitAnd(a, b)

\* value << n
Shl(value, n) == value * 2^n

\* conversion of an int to int16_t (two's complement wrap, as GCC does)
ToInt16(v) ==
  LET m == v % 65536 IN IF m >= 32768 THEN m - 65536 ELSE m

\* the low 8 bits of a (possibly negative) int: v & 0xff
Low8(v) == v % 256

\* conversion of an int to uint16_t
ToUint16(v) == v % 65536

\* ------------------------------------------------------------------------
\* State
\* ------------------------------------------------------------------------
VARIABLES
  \* x68000 state (main.c:135-143)
  txInhibit, keyInhibit, msctrlAsserted,
  currentLedLevel, currentLedState,
  keyRepeatDelay, keyRepeatInterval,
  \* USB HID state (main.c:146-151)
  dx, dy, lmbPressed, rmbPressed,
  prevReport, keyRepeatKeyCode, keyRepeatCountdown,
  \* READY line: its level (TRUE = high) and the edge events latched by the
  \* GPIO block and not yet handed to gpioISR
  readyLevel, readyPending,
  \* what the last handler was, its input, and what it wrote to the two
  \* serial sinks (uart_write_blocking on KEYB_UART / MOUSE_UART)
  op, arg, kbOut, msOut, mouseCalls,
  \* history of the mouse path: deltas delivered since the last emitted
  \* frame and their number; button bits of the last emitted frame (-1
  \* before the first frame); buttons of the latest mouse report
  sumX, sumY, nAccum, lastButtons, btnSeen,
  \* history of the command path: what the last key-inhibit command of the
  \* host asked for (bit 0 clear = inhibit)
  hostKeyInhibit,
  \* history of a run of keyboard reports: their number, the reports, and
  \* everything written to the keyboard sink
  nReports, hist, kbLog,
  \* history of the repeat path: the key whose press came last and is still
  \* held, whether its first repeat or a later one is awaited (phase), and
  \* the time the ticks have delivered since that press or since its last
  \* repeat (elapsed)
  timer,
  \* the main loop seen instruction by instruction: where it stands (pc),
  \* its locals (loc: the report being handled, the value loaded from an
  \* accumulator, the frame built by sendMouse), and the account of the
  \* deltas delivered by reports and carried by frames (acct)
  pc, loc, acct

progVars ==
  << txInhibit, keyInhibit, msctrlAsserted, currentLedLevel, currentLedState,
     keyRepeatDelay, keyRepeatInterval, dx, dy, lmbPressed, rmbPressed,
     prevReport, keyRepeatKeyCode, keyRepeatCountdown >>

vars ==
  << txInhibit, keyInhibit, msctrlAsserted, currentLedLevel, currentLedState,
     keyRepeatDelay, keyRepeatInterval, dx, dy, lmbPressed, rmbPressed,
     prevReport, keyRepeatKeyCode, keyRepeatCountdown,
     readyLevel, readyPending, op, arg, kbOut, msOut, mouseCalls,
     sumX, sumY, nAccum, lastButtons, btnSeen, hostKeyInhibit,
     nReports, hist, kbLog, timer, pc, loc, acct >>

cfgVars ==
  << keyInhibit, msctrlAsserted, currentLedLevel, currentLedState,
     keyRepeatDelay, keyRepeatInterval >>

keybVars == << prevReport, keyRepeatKeyCode, keyRepeatCountdown >>

readyVars == << readyLevel, readyPending >>

mouseHist == << sumX, sumY, nAccum, lastButtons, btnSeen >>

seqVars == << nReports, hist, kbLog, timer >>

irqVars == << pc, loc, acct >>

ZeroKeys == [i \in 1..NumSlots |-> 0]

ZeroReport == [modifier |-> 0, keycode |-> ZeroKeys]

NoArg == [none |-> TRUE]

NoTimer == [key |-> 0, phase |-> "idle", elapsed |-> 0]

NoLoc == [report |-> [buttons |-> 0, x |-> 0, y |-> 0], reg |-> 0,
          mdata |-> << >>, dx |-> 0, dy |-> 0]

NoAcct == [n |-> 0, delivX |-> 0, delivY |-> 0, emitX |-> 0, emitY |-> 0]

\* ------------------------------------------------------------------------
\* sendMouse (main.c:246-274).  The frame is the MouseData union: the
\* bit-fields of data[0] are allocated from bit 0 upwards, data[1] and
\* data[2] are the low bytes of dx and dy.  flashActivityLED only drives the
\* board LED and is left out.
\* ------------------------------------------------------------------------
B2N(b) == IF b THEN 1 ELSE 0

MouseData(l, r, x, y) ==
  << B2N(l) + 2 * B2N(r) + 16 * B2N(x > 127) + 32 * B2N(x < -128)
       + 64 * B2N(y > 127) + 128 * B2N(y < -128),
     Low8(x),
     Low8(y) >>

\* sendMouse with the readings reset before the txInhibit test
sendMouse_ResetFirst(st) ==
  IF txInhibit
  THEN [st EXCEPT !.dx = 0, !.dy = 0, !.calls = @ + 1]
  ELSE LET mdata == MouseData(lmbPressed, rmbPressed, st.dx, st.dy)
       IN [dx |-> 0, dy |-> 0,
           out |-> st.out \o [i \in 1..3 |-> [byte |-> mdata[i], inh |-> txInhibit]],
           calls |-> st.calls + 1]

\* st = [dx, dy, out, calls]: the accumulators, the bytes written to the
\* mouse sink so far by the running handler and the number of calls
sendMouse(st) ==
  IF txInhibit
  THEN [st EXCEPT !.calls = @ + 1]
  ELSE LET mdata == MouseData(lmbPressed, rmbPressed, st.dx, st.dy)
       IN [dx |-> 0, dy |-> 0,
           out |-> st.out \o [i \in 1..3 |-> [byte |-> mdata[i], inh |-> txInhibit]],
           calls |-> st.calls + 1]

\* ------------------------------------------------------------------------
\* uartISR (main.c:180-216): one iteration of the loop for the byte ch.
\* cfg = [msctrl, level, inhibit, delay, interval, led]
\* ------------------------------------------------------------------------
\* uartByte with the repeat delay kept in a uint8_t
uartByte_ByteDelay(cfg, ch) ==
  IF BitAnd(ch, KEYB_MSCTRL_MASK) = KEYB_MSCTRL
  THEN [cfg EXCEPT !.msctrl = (BitAnd(ch, 1) = 0)]
  ELSE IF BitAnd(ch, KEYB_LED_BRIGHTNESS_MASK) = KEYB_LED_BRIGHTNESS
  THEN [cfg EXCEPT !.level = BitAnd(ch, 3)]
  ELSE IF BitAnd(ch, KEYB_KEY_INHIBIT_MASK) = KEYB_KEY_INHIBIT
  \* ch & 0x01 == 0 parses as ch & (0x01 == 0)
  THEN [cfg EXCEPT !.inhibit = (BitAnd(ch, B2N(1 = 0)) # 0)]
  ELSE IF BitAnd(ch, KEYB_REPEAT_MASK) = KEYB_REPEAT_DELAY
  THEN [cfg EXCEPT !.delay = Low8(200 + BitAnd(ch, 15) * 100)]
  ELSE IF BitAnd(ch, KEYB_REPEAT_MASK) = KEYB_REPEAT_INTERVAL
  THEN LET v == BitAnd(ch, 15) IN [cfg EXCEPT !.interval = ToUint16(30 + v * v * 5)]
  ELSE IF BitAnd(ch, KEYB_LED_CTRL_MASK) = KEYB_LED_CTRL_MASK
  THEN [cfg EXCEPT !.led = BitAnd(ch, 127)]
  ELSE cfg

\* uartByte with the MSCTRL prefix tested under the mask 0xf0
uartByte_WideMsctrl(cfg, ch) ==
  IF BitAnd(ch, \hf0) = KEYB_MSCTRL
  THEN [cfg EXCEPT !.msctrl = (BitAnd(ch, 1) = 0)]
  ELSE IF BitAnd(ch, KEYB_LED_BRIGHTNESS_MASK) = KEYB_LED_BRIGHTNESS
  THEN [cfg EXCEPT !.level = BitAnd(ch, 3)]
  ELSE IF BitAnd(ch, KEYB_KEY_INHIBIT_MASK) = KEYB_KEY_INHIBIT
  \* ch & 0x01 == 0 parses as ch & (0x01 == 0)
  THEN [cfg EXCEPT !.inhibit = (BitAnd(ch, B2N(1 = 0)) # 0)]
  ELSE IF BitAnd(ch, KEYB_REPEAT_MASK) = KEYB_REPEAT_DELAY
  THEN [cfg EXCEPT !.delay = ToUint16(200 + BitAnd(ch, 15) * 100)]
  ELSE IF BitAnd(ch, KEYB_REPEAT_MASK) = KEYB_REPEAT_INTERVAL
  THEN LET v == BitAnd(ch, 15) IN [cfg EXCEPT !.interval = ToUint16(30 + v * v * 5)]
  ELSE IF BitAnd(ch, KEYB_LED_CTRL_MASK) = KEYB_LED_CTRL_MASK
  THEN [cfg EXCEPT !.led = BitAnd(ch, 127)]
  ELSE cfg

uartByte(cfg, ch) ==
  IF BitAnd(ch, KEYB_MSCTRL_MASK) = KEYB_MSCTRL
  THEN [cfg EXCEPT !.msctrl = (BitAnd(ch, 1) = 0)]
  ELSE IF BitAnd(ch, KEYB_LED_BRIGHTNESS_MASK) = KEYB_LED_BRIGHTNESS
  THEN [cfg EXCEPT !.level = BitAnd(ch, 3)]
  ELSE IF BitAnd(ch, KEYB_KEY_INHIBIT_MASK) = KEYB_KEY_INHIBIT
  \* ch & 0x01 == 0 parses as ch & (0x01 == 0)
  THEN [cfg EXCEPT !.inhibit = (BitAnd(ch, B2N(1 = 0)) # 0)]
  ELSE IF BitAnd(ch, KEYB_REPEAT_MASK) = KEYB_REPEAT_DELAY
  THEN [cfg EXCEPT !.delay = ToUint16(200 + BitAnd(ch, 15) * 100)]
  ELSE IF BitAnd(ch, KEYB_REPEAT_MASK) = KEYB_REPEAT_INTERVAL
  THEN LET v == BitAnd(ch, 15) IN [cfg EXCEPT !.interval = ToUint16(30 + v * v * 5)]
  ELSE IF BitAnd(ch, KEYB_LED_CTRL_MASK) = KEYB_LED_CTRL_MASK
  THEN [cfg EXCEPT !.led = BitAnd(ch, 127)]
  ELSE cfg

\* the whole loop, for the bytes found in the receive FIFO
RECURSIVE uartISR(_, _)
uartISR(cfg, rx) ==
  IF rx = << >> THEN cfg ELSE uartISR(uartByte(cfg, Head(rx)), Tail(rx))

\* ------------------------------------------------------------------------
\* Keyboard diff engine
\* ------------------------------------------------------------------------
\* sendKeycode with the break flag dropped
sendKeycode_NoBreakFlag(keyCode, make) ==
  IF keyCode < HID_KEY_A \/ (keyCode - HID_KEY_A) >= Len(keycodeScans)
  THEN << >>
  ELSE << [src |-> "key", byte |-> keycodeScans[keyCode - HID_KEY_A + 1],
           inh |-> txInhibit] >>

\* sendKeycode (main.c:389-399): the bytes written to the keyboard sink
sendKeycode(keyCode, make) ==
  IF keyCode < HID_KEY_A \/ (keyCode - HID_KEY_A) >= Len(keycodeScans)
  THEN << >>
  ELSE LET scan == keycodeScans[keyCode - HID_KEY_A + 1]
       IN << [src |-> "key",
              byte |-> BitOr(scan, IF make THEN \h00 ELSE \h80),
              inh |-> txInhibit] >>

\* isPresentInReport with the loop stopping one slot early
isPresentInReport_FiveSlots(report, keyCode) ==
  \E i \in 1..(NumSlots - 1) : report.keycode[i] = keyCode

\* isPresentInReport (main.c:401-409)
isPresentInReport(report, keyCode) ==
  \E i \in 1..NumSlots : report.keycode[i] = keyCode

\* compareKeybReports (main.c:411-441), from slot i on.
\* st = [out, code, cd]: bytes written so far, keyRepeatKeyCode,
\* keyRepeatCountdown
RECURSIVE compareFrom(_, _, _, _, _)
compareFrom(i, reportA, reportB, make, st) ==
  IF i > NumSlots THEN st
  ELSE LET keyCode == reportA.keycode[i] IN
    IF keyCode = HID_KEY_NONE \/ keyCode <= \h03
    THEN compareFrom(i + 1, reportA, reportB, make, st)
    ELSE IF ~isPresentInReport(reportB, keyCode)
    THEN compareFrom(i + 1, reportA, reportB, make,
           [out |-> st.out \o sendKeycode(keyCode, make),
            code |-> IF make THEN keyCode
                     ELSE IF st.code = keyCode THEN 0 ELSE st.code,
            cd |-> IF make THEN keyRepeatDelay
                   ELSE IF st.code = keyCode THEN 0 ELSE st.cd])
    ELSE compareFrom(i + 1, reportA, reportB, make, st)

\* compareKeybReports with the break pass leaving the repeat state alone
compareKeybReports_KeepArmed(reportA, reportB, make, st) ==
  LET r == compareFrom(1, reportA, reportB, make, st)
  IN IF make THEN r ELSE [r EXCEPT !.code = st.code, !.cd = st.cd]

compareKeybReports(reportA, reportB, make, st) ==
  compareFrom(1, reportA, reportB, make, st)

\* the modifier loop of processKeybReport (main.c:471-486), from bit i on
RECURSIVE modifierFrom(_, _, _)
modifierFrom(i, modified, report) ==
  IF i >= 8 THEN << >>
  ELSE LET mod == Shl(1, i) IN
    IF BitAnd(modified, mod) # 0
    THEN LET make == BitAnd(report.modifier, mod) # 0
             scan == BitOr(modifierScans[i + 1], IF make THEN \h00 ELSE \h80)
         IN << [src |-> "mod", byte |-> scan, inh |-> txInhibit] >>
              \o modifierFrom(i + 1, modified, report)
    ELSE modifierFrom(i + 1, modified, report)

\* processKeybReport with the modifiers evaluated after the keys
processKeybReport_ModifiersLast(report) ==
  LET modified == BitXor(prevReport.modifier, report.modifier)
      st0 == [out |-> << >>, code |-> keyRepeatKeyCode, cd |-> keyRepeatCountdown]
      st1 == compareKeybReports(prevReport, report, FALSE, st0)
      st2 == compareKeybReports(report, prevReport, TRUE, st1)
  IN [st2 EXCEPT !.out = @ \o (IF modified # 0
                                THEN modifierFrom(0, modified, report)
                                ELSE << >>)]

\* processKeybReport with the make pass run before the break pass
processKeybReport_MakesFirst(report) ==
  LET modified == BitXor(prevReport.modifier, report.modifier)
      st0 == [out |-> IF modified # 0 THEN modifierFrom(0, modified, report) ELSE << >>,
              code |-> keyRepeatKeyCode, cd |-> keyRepeatCountdown]
      st1 == compareKeybReports(report, prevReport, TRUE, st0)
      st2 == compareKeybReports(prevReport, report, FALSE, st1)
  IN st2

\* processKeybReport (main.c:468-495): result [out, code, cd]
processKeybReport(report) ==
  LET modified == BitXor(prevReport.modifier, report.modifier)
      st0 == [out |-> IF modified # 0 THEN modifierFrom(0, modified, report) ELSE << >>,
              code |-> keyRepeatKeyCode, cd |-> keyRepeatCountdown]
      \* evaluate BREAK codes (key-up)
      st1 == compareKeybReports(prevReport, report, FALSE, st0)
      \* evaluate MAKE codes (key-down)
      st2 == compareKeybReports(report, prevReport, TRUE, st1)
  IN st2

\* gpioISR (main.c:155-165).  events is the set of latched edge events of
\* the pin.  The second test is the assignment gpio = READY_GPIO, which is
\* non-zero: the else branch is taken whenever the first test fails.
\* m = [dx, dy, out, calls]; result [tx, m]
gpioISR(gpio, events, m) ==
  IF gpio = MSCTRL_GPIO /\ "fall" \in events
  THEN [tx |-> txInhibit, m |-> sendMouse(m)]
  ELSE [tx |-> ("fall" \in events), m |-> m]

\* processMouseReport with the deltas assigned instead of accumulated
processMouseReport_Assign(report) ==
  [lmb |-> BitAnd(report.buttons, 1) # 0,
   rmb |-> BitAnd(report.buttons, 2) # 0,
   dx |-> ToInt16(report.x),
   dy |-> ToInt16(report.y)]

\* processMouseReport (main.c:497-503): dx += report->x stores
\* the int sum into the int16_t accumulator
processMouseReport(report) ==
  [lmb |-> BitAnd(report.buttons, 1) # 0,
   rmb |-> BitAnd(report.buttons, 2) # 0,
   dx |-> ToInt16(dx + report.x),
   dy |-> ToInt16(dy + report.y)]

\* processKeybAndMouse with the overshoot of the countdown carried into the
\* next period
processKeybAndMouse_CarryOver(deltaTime, rx) ==
  LET cfg0 == [msctrl |-> msctrlAsserted, level |-> currentLedLevel,
               inhibit |-> keyInhibit, delay |-> keyRepeatDelay,
               interval |-> keyRepeatInterval, led |-> currentLedState]
      wasAserted == cfg0.msctrl
      cfg1 == uartISR(cfg0, rx)
      isAsserted == cfg1.msctrl
      m0 == [dx |-> dx, dy |-> dy, out |-> << >>, calls |-> 0]
      m1 == IF ~wasAserted /\ isAsserted THEN sendMouse(m0) ELSE m0
      cd1 == keyRepeatCountdown - deltaTime
  IN [cfg |-> cfg1, m |-> m1,
      out |-> IF keyRepeatCountdown # 0 /\ cd1 <= 0
              THEN sendKeycode(keyRepeatKeyCode, TRUE) ELSE << >>,
      cd |-> IF keyRepeatCountdown # 0
             THEN (IF cd1 <= 0 THEN cd1 + cfg1.interval ELSE cd1)
             ELSE keyRepeatCountdown]

\* processKeybAndMouse with the countdown reloaded from keyRepeatDelay
processKeybAndMouse_ReloadDelay(deltaTime, rx) ==
  LET cfg0 == [msctrl |-> msctrlAsserted, level |-> currentLedLevel,
               inhibit |-> keyInhibit, delay |-> keyRepeatDelay,
               interval |-> keyRepeatInterval, led |-> currentLedState]
      wasAserted == cfg0.msctrl
      cfg1 == uartISR(cfg0, rx)
      isAsserted == cfg1.msctrl
      m0 == [dx |-> dx, dy |-> dy, out |-> << >>, calls |-> 0]
      m1 == IF ~wasAserted /\ isAsserted THEN sendMouse(m0) ELSE m0
      cd1 == keyRepeatCountdown - deltaTime
  IN [cfg |-> cfg1, m |-> m1,
      out |-> IF keyRepeatCountdown # 0 /\ cd1 <= 0
              THEN sendKeycode(keyRepeatKeyCode, TRUE) ELSE << >>,
      cd |-> IF keyRepeatCountdown # 0
             THEN (IF cd1 <= 0 THEN cfg1.delay ELSE cd1)
             ELSE keyRepeatCountdown]

\* processKeybAndMouse with the countdown not reloaded after a repeat
processKeybAndMouse_NoReload(deltaTime, rx) ==
  LET cfg0 == [msctrl |-> msctrlAsserted, level |-> currentLedLevel,
               inhibit |-> keyInhibit, delay |-> keyRepeatDelay,
               interval |-> keyRepeatInterval, led |-> currentLedState]
      wasAserted == cfg0.msctrl
      cfg1 == uartISR(cfg0, rx)
      isAsserted == cfg1.msctrl
      m0 == [dx |-> dx, dy |-> dy, out |-> << >>, calls |-> 0]
      m1 == IF ~wasAserted /\ isAsserted THEN sendMouse(m0) ELSE m0
      cd1 == keyRepeatCountdown - deltaTime
  IN [cfg |-> cfg1, m |-> m1,
      out |-> IF keyRepeatCountdown # 0 /\ cd1 <= 0
              THEN sendKeycode(keyRepeatKeyCode, TRUE) ELSE << >>,
      cd |-> IF keyRepeatCountdown # 0
             THEN cd1
             ELSE keyRepeatCountdown]

\* processKeybAndMouse (main.c:443-466) with the bytes rx waiting in the
\* keyboard receive FIFO: result [cfg, m, out, cd]
processKeybAndMouse(deltaTime, rx) ==
  LET cfg0 == [msctrl |-> msctrlAsserted, level |-> currentLedLevel,
               inhibit |-> keyInhibit, delay |-> keyRepeatDelay,
               interval |-> keyRepeatInterval, led |-> currentLedState]
      wasAserted == cfg0.msctrl
      cfg1 == uartISR(cfg0, rx)
      isAsserted == cfg1.msctrl
      m0 == [dx |-> dx, dy |-> dy, out |-> << >>, calls |-> 0]
      m1 == IF ~wasAserted /\ isAsserted THEN sendMouse(m0) ELSE m0
      cd1 == keyRepeatCountdown - deltaTime
  IN [cfg |-> cfg1, m |-> m1,
      out |-> IF keyRepeatCountdown # 0 /\ cd1 <= 0
              THEN sendKeycode(keyRepeatKeyCode, TRUE) ELSE << >>,
      cd |-> IF keyRepeatCountdown # 0
             THEN (IF cd1 <= 0 THEN cfg1.interval ELSE cd1)
             ELSE keyRepeatCountdown]

\* ------------------------------------------------------------------------
\* Handlers as steps.  Each step records the handler (op) and what it
\* wrote; the input (arg) and the history of a run of keyboard reports are
\* left to the specification.
\* The handler's result is bound once (\E r \in {...}) and then assigned.
\* ------------------------------------------------------------------------
KeybReportStep(report) ==
  \E r \in {processKeybReport(report)} :
  /\ prevReport' = report
  /\ keyRepeatKeyCode' = r.code
  /\ keyRepeatCountdown' = r.cd
  /\ kbOut' = r.out
  /\ msOut' = << >>
  /\ mouseCalls' = 0
  /\ op' = "keyb"
  /\ UNCHANGED << txInhibit, cfgVars, dx, dy, lmbPressed, rmbPressed,
                  readyVars, mouseHist, hostKeyInhibit >>

MouseReportStep(report) ==
  \E r \in {processMouseReport(report)} :
  /\ lmbPressed' = r.lmb
  /\ rmbPressed' = r.rmb
  /\ dx' = r.dx
  /\ dy' = r.dy
  /\ sumX' = sumX + report.x
  /\ sumY' = sumY + report.y
  /\ nAccum' = nAccum + 1
  /\ btnSeen' = report.buttons
  /\ kbOut' = << >>
  /\ msOut' = << >>
  /\ mouseCalls' = 0
  /\ op' = "mouse"
  /\ UNCHANGED << txInhibit, cfgVars, keybVars, readyVars, lastButtons,
                  hostKeyInhibit >>

\* what the key-inhibit commands among the bytes rx ask for, as the X68000
\* command set defines them: 01011xx0 inhibits, 01011xx1 releases
RECURSIVE KeyInhibitAsked(_, _)
KeyInhibitAsked(asked, rx) ==
  IF rx = << >> THEN asked
  ELSE KeyInhibitAsked(
         IF Head(rx) \div 8 = 11 THEN Head(rx) % 2 = 0 ELSE asked, Tail(rx))

\* the accumulators and the history after the sendMouse calls of a handler
MouseAfter(m) ==
  /\ dx' = m.dx
  /\ dy' = m.dy
  /\ msOut' = m.out
  /\ mouseCalls' = m.calls
  /\ sumX' = IF m.out # << >> THEN 0 ELSE sumX
  /\ sumY' = IF m.out # << >> THEN 0 ELSE sumY
  /\ nAccum' = IF m.out # << >> THEN 0 ELSE nAccum
  /\ lastButtons' = IF m.out # << >> THEN m.out[Len(m.out) - 2].byte % 4
                    ELSE lastButtons
  /\ UNCHANGED btnSeen

PollStep(deltaTime, rx) ==
  \E r \in {processKeybAndMouse(deltaTime, rx)} :
  /\ msctrlAsserted' = r.cfg.msctrl
  /\ currentLedLevel' = r.cfg.level
  /\ keyInhibit' = r.cfg.inhibit
  /\ keyRepeatDelay' = r.cfg.delay
  /\ keyRepeatInterval' = r.cfg.interval
  /\ currentLedState' = r.cfg.led
  /\ MouseAfter(r.m)
  /\ keyRepeatCountdown' = r.cd
  /\ kbOut' = r.out
  /\ op' = "poll"
  /\ hostKeyInhibit' = KeyInhibitAsked(hostKeyInhibit, rx)
  /\ UNCHANGED << txInhibit, lmbPressed, rmbPressed, prevReport,
                  keyRepeatKeyCode, readyVars >>

\* the GPIO interrupt for the MSCTRL pin: only GPIO_IRQ_EDGE_FALL is
\* enabled for it (main.c:50)
MouseRequestStep ==
  \E r \in {gpioISR(MSCTRL_GPIO, {"fall"},
                    [dx |-> dx, dy |-> dy, out |-> << >>, calls |-> 0])} :
  /\ txInhibit' = r.tx
  /\ MouseAfter(r.m)
  /\ kbOut' = << >>
  /\ op' = "msreq"
  /\ UNCHANGED << cfgVars, lmbPressed, rmbPressed, keybVars, readyVars,
                  hostKeyInhibit >>

\* the READY line changes level; the GPIO block latches the edge
\* (both edges are enabled, main.c:56)
ReadyEdgeStep ==
  /\ readyLevel' = ~readyLevel
  /\ readyPending' = readyPending \cup {IF readyLevel THEN "fall" ELSE "rise"}
  /\ kbOut' = << >>
  /\ msOut' = << >>
  /\ mouseCalls' = 0
  /\ op' = "edge"
  /\ UNCHANGED << txInhibit, cfgVars, dx, dy, lmbPressed, rmbPressed,
                  keybVars, mouseHist, hostKeyInhibit >>

\* the GPIO interrupt for the READY pin with the latched events
ReadyIsrStep ==
  \E r \in {gpioISR(READY_GPIO, readyPending,
                    [dx |-> dx, dy |-> dy, out |-> << >>, calls |-> 0])} :
  /\ readyPending # {}
  /\ txInhibit' = r.tx
  /\ MouseAfter(r.m)
  /\ readyPending' = {}
  /\ kbOut' = << >>
  /\ op' = "ready"
  /\ UNCHANGED << cfgVars, lmbPressed, rmbPressed, keybVars, readyLevel,
                  hostKeyInhibit >>

\* ------------------------------------------------------------------------
\* Inputs
\* ------------------------------------------------------------------------
\* keycode arrays with a in the first slot, b in the second, c in the last
Keys(a, b, c) ==
  [i \in 1..NumSlots |-> IF i = 1 THEN a ELSE IF i = 2 THEN b
                         ELSE IF i = NumSlots THEN c ELSE 0]

Modifiers == {\h00, \h02}

KeyArrays == {ZeroKeys, Keys(\h04, 0, 0)}

Reports == [modifier : Modifiers, keycode : KeyArrays]

MouseDeltas == {10}

MouseReports == [buttons : {1}, x : MouseDeltas, y : {0}]

\* host command bytes and the contents of the receive FIFO at a poll
CmdBytes == {\h40, \h41, \h58}

MaxDrain == 2

RECURSIVE SeqsUpTo(_, _)
SeqsUpTo(S, n) ==
  IF n = 0 THEN {<< >>}
  ELSE LET prev == SeqsUpTo(S, n - 1)
       IN prev \cup {Append(q, e) : q \in {p \in prev : Len(p) = n - 1}, e \in S}

TickDeltas == {250}

RxSeqs == SeqsUpTo(CmdBytes, MaxDrain)

\* number of mouse reports accumulated between two frames
MaxAccum == 1

\* ------------------------------------------------------------------------
\* The bridge: every handler, atomically, in any order
\* ------------------------------------------------------------------------
InitProgram ==
  /\ txInhibit = FALSE
  /\ keyInhibit = FALSE
  /\ msctrlAsserted = FALSE
  /\ currentLedLevel = 0
  /\ currentLedState = 0
  /\ keyRepeatDelay = 500
  /\ keyRepeatInterval = 110
  /\ dx = 0
  /\ dy = 0
  /\ lmbPressed = FALSE
  /\ rmbPressed = FALSE
  /\ prevReport = ZeroReport
  /\ keyRepeatKeyCode = \h00
  /\ keyRepeatCountdown = 0

InitObserved ==
  /\ op = "init"
  /\ arg = NoArg
  /\ kbOut = << >>
  /\ msOut = << >>
  /\ mouseCalls = 0
  /\ sumX = 0
  /\ sumY = 0
  /\ nAccum = 0
  /\ lastButtons = -1
  /\ btnSeen = 0
  /\ hostKeyInhibit = FALSE
  /\ nReports = 0
  /\ hist = << >>
  /\ kbLog = << >>
  /\ timer = NoTimer
  /\ pc = "idle"
  /\ loc = NoLoc
  /\ acct = NoAcct

Init ==
  /\ InitProgram
  /\ InitObserved
  /\ readyLevel \in BOOLEAN
  /\ readyPending = {}

KeybReport ==
  \E report \in Reports :
    KeybReportStep(report) /\ UNCHANGED << arg, seqVars, irqVars >>

MouseReport ==
  \E report \in MouseReports :
    nAccum < MaxAccum /\ MouseReportStep(report) /\ UNCHANGED << arg, seqVars, irqVars >>

Poll ==
  \E deltaTime \in TickDeltas, rx \in RxSeqs :
    PollStep(deltaTime, rx) /\ UNCHANGED << arg, seqVars, irqVars >>

MouseRequest == MouseRequestStep /\ UNCHANGED << arg, seqVars, irqVars >>

ReadyEdge == ReadyEdgeStep /\ UNCHANGED << arg, seqVars, irqVars >>

ReadyIsr == ReadyIsrStep /\ UNCHANGED << arg, seqVars, irqVars >>

Next ==
  \/ KeybReport
  \/ MouseReport
  \/ Poll
  \/ MouseRequest
  \/ ReadyEdge
  \/ ReadyIsr

Spec == Init /\ [][Next]_vars

\* ------------------------------------------------------------------------
\* Properties of the bridge (Spec)
\* ------------------------------------------------------------------------
\* the bytes of a sequence of written records
Bytes(out) == [i \in DOMAIN out |-> out[i].byte]

\* C1: no byte is written to the keyboard sink or to the mouse sink while
\* txInhibit is true.
C1_NoByteWhileTxInhibit ==
  /\ \A i \in DOMAIN kbOut : ~kbOut[i].inh
  /\ \A i \in DOMAIN msOut : ~msOut[i].inh

\* C2: once the host has asked for key inhibit (keyInhibit true by the
\* command table: the last 01011xxx byte had bit 0 clear), no scancode byte
\* is written to the keyboard sink.
C2_NoScancodeWhileKeyInhibit ==
  hostKeyInhibit => kbOut = << >>

\* ------------------------------------------------------------------------
\* The keyboard diff engine alone: keyboard reports over a wider set of
\* modifiers and keycodes (sentinels, both ends of the table, a keycode
\* past the table, the same keycode in two slots), READY high
\* ------------------------------------------------------------------------
ModifiersK == {\h00, \h02, \h81}

KeyArraysK ==
  {Keys(a, b, c) : a \in {\h00, \h03, \h04}, b \in {\h00, \h04, \h65},
                   c \in {\h00, \h64}}

ReportsK == [modifier : ModifiersK, keycode : KeyArraysK]

InitKeyb ==
  /\ InitProgram
  /\ InitObserved
  /\ readyLevel = TRUE
  /\ readyPending = {}

KeybReportK ==
  \E report \in ReportsK :
    /\ KeybReportStep(report)
    /\ arg' = [report |-> report]
    /\ UNCHANGED << seqVars, irqVars >>

NextKeyb == KeybReportK

SpecKeyb == InitKeyb /\ [][NextKeyb]_vars

\* the keycodes sendKeycode translates
Translatable == \h04..\h64

Held(report) == {report.keycode[i] : i \in 1..NumSlots}

KeyBytes(out) == {out[i].byte : i \in {j \in DOMAIN out : out[j].src = "key"}}

ExpectedBreaks(prev, cur) ==
  {BitOr(keycodeScans[k - \h04 + 1], \h80) :
     k \in (Held(prev) \ Held(cur)) \cap Translatable}

ExpectedMakes(prev, cur) ==
  {keycodeScans[k - \h04 + 1] :
     k \in (Held(cur) \ Held(prev)) \cap Translatable}

\* C3: a keyboard report handled while transmission is not inhibited writes
\* the break byte (scan | 0x80) of every translatable keycode that left the
\* report, the make byte (scan) of every translatable keycode that entered
\* it, and no other key scancode byte.
C3_DiffEmitsMakesAndBreaks ==
  [][(op' = "keyb" /\ ~txInhibit) =>
       KeyBytes(kbOut') = ExpectedBreaks(prevReport, prevReport')
                            \cup ExpectedMakes(prevReport, prevReport')]_vars

\* a report that released A (0x9E) and pressed the last key of the table
\* (0x0E) with an untranslatable keycode and a sentinel in its slots
C3_Witness ==
  /\ op = "keyb"
  /\ ~txInhibit
  /\ prevReport.keycode = Keys(\h03, \h65, \h64)
  /\ KeyBytes(kbOut) = {\h9e, \h0e}

\* the k-th smallest element of a set of numbers
Kth(S, k) == CHOOSE b \in S : Cardinality({c \in S : c < b}) = k - 1

ChangedBits(prev, cur) ==
  {b \in 0..7 : Bit(prev.modifier, b) # Bit(cur.modifier, b)}

\* C5: the bytes of one keyboard report are the modifier bytes of the
\* changed modifier bits in bit order 0..7, then the key break bytes, then
\* the key make bytes.
C5_ModifiersBreaksMakes ==
  [][op' = "keyb" =>
       LET out == kbOut'
           changed == ChangedBits(prevReport, prevReport')
           n == Cardinality(changed)
       IN /\ Len(out) >= n
          /\ \A k \in 1..n :
               /\ out[k].src = "mod"
               /\ out[k].byte =
                    modifierScans[Kth(changed, k) + 1]
                      + (IF Bit(prevReport'.modifier, Kth(changed, k)) = 1
                         THEN 0 ELSE 128)
          /\ \A k \in (n + 1)..Len(out) : out[k].src = "key"
          /\ \A i, j \in (n + 1)..Len(out) :
               (i < j /\ out[i].byte < 128) => out[j].byte < 128]_vars

\* a report that wrote two modifier bytes, a break and a make
C5_Witness ==
  /\ op = "keyb"
  /\ Len(kbOut) >= 4
  /\ kbOut[1].src = "mod"
  /\ kbOut[2].src = "mod"
  /\ \E i, j \in DOMAIN kbOut :
       /\ kbOut[i].src = "key" /\ kbOut[i].byte >= 128
       /\ kbOut[j].src = "key" /\ kbOut[j].byte < 128

\* ------------------------------------------------------------------------
\* Runs of keyboard reports from boot, with the reports delivered and the
\* bytes written kept as history
\* ------------------------------------------------------------------------
\* number of keyboard reports of a run
MaxReports == 4

ReportsSeq ==
  { ZeroReport,
    [modifier |-> \h02, keycode |-> ZeroKeys],
    [modifier |-> \h02, keycode |-> Keys(\h04, 0, 0)],
    [modifier |-> \h00, keycode |-> Keys(\h04, 0, 0)],
    [modifier |-> \h00, keycode |-> Keys(\h04, \h04, 0)],
    [modifier |-> \h00, keycode |-> Keys(\h05, \h65, \h04)] }

KeybReportSeq ==
  \E report \in ReportsSeq :
    /\ nReports < MaxReports
    /\ KeybReportStep(report)
    /\ arg' = [report |-> report]
    /\ nReports' = nReports + 1
    /\ hist' = Append(hist, report)
    /\ kbLog' = kbLog \o kbOut'
    /\ UNCHANGED << timer, irqVars >>

NextSeq == KeybReportSeq

SpecSeq == InitKeyb /\ [][NextSeq]_vars

\* number of makes (flag = 0) or breaks (flag = 128) of scancode s in a log,
\* written by the diff engine
Emitted(log, s, flag) ==
  Cardinality({i \in DOMAIN log : log[i].src = "key" /\ log[i].byte = s + flag})

Balanced(log) == \A s \in 0..127 : Emitted(log, s, 0) = Emitted(log, s, 128)

\* no translatable keycode sits in two slots of the report
DistinctKeys(report) ==
  \A i, j \in 1..NumSlots :
    (i # j /\ report.keycode[i] \in Translatable)
      => report.keycode[i] # report.keycode[j]

\* C4 as stated: after any run of keyboard reports from the all-zero report
\* that ends with the all-zero report, every scancode has as many makes as
\* breaks.
C4_MakeBreakBalance_Any ==
  (nReports > 0 /\ prevReport = ZeroReport) => Balanced(kbLog)

\* C4 amended: the same, for runs in which no report holds a translatable
\* keycode in two slots.
C4_MakeBreakBalance ==
  (nReports > 0 /\ prevReport = ZeroReport
     /\ \A i \in DOMAIN hist : DistinctKeys(hist[i]))
    => Balanced(kbLog)

\* a run that pressed three keys (one untranslatable), released them and
\* ended all-zero
C4_Witness ==
  /\ nReports > 0
  /\ prevReport = ZeroReport
  /\ \A i \in DOMAIN hist : DistinctKeys(hist[i])
  /\ Emitted(kbLog, \h1e, 0) >= 1
  /\ Emitted(kbLog, \h2e, 128) >= 1

\* the reports of scenario S2
S2Reports ==
  << [modifier |-> \h02, keycode |-> ZeroKeys],
     [modifier |-> \h02, keycode |-> Keys(\h04, 0, 0)],
     [modifier |-> \h00, keycode |-> ZeroKeys] >>

\* C6 as stated: scenario S2 writes 0x70, 0x1E, 0x9E, 0xF0.
C6_ShiftA_KeyBreakFirst ==
  hist = S2Reports => Bytes(kbLog) = << \h70, \h1e, \h9e, \hf0 >>

\* C6 amended: scenario S2 writes 0x70, 0x1E, 0xF0, 0x9E (the Shift
\* modifier's break precedes the key's break).
C6_ShiftA ==
  hist = S2Reports => Bytes(kbLog) = << \h70, \h1e, \hf0, \h9e >>

C6_Witness ==
  /\ hist = S2Reports
  /\ ~txInhibit
  /\ Len(kbLog) = 4

\* ------------------------------------------------------------------------
\* The mouse path alone: mouse reports, the two emission triggers and the
\* READY line.  A run starts at boot or after a long run of reports that
\* left the accumulators close to the ends of int16_t (327 reports of
\* +100/-100 with no frame in between, counted as one towards MaxAccum).
\* ------------------------------------------------------------------------
MouseReportsM ==
  { [buttons |-> 1, x |-> 10, y |-> -5],
    [buttons |-> 0, x |-> 100, y |-> 0],
    [buttons |-> 2, x |-> -100, y |-> -100] }

AccumStarts ==
  { [dx |-> 0, dy |-> 0, n |-> 0], [dx |-> 32700, dy |-> -32700, n |-> 1] }

CmdBytesM == {\h40, \h41}

RxSeqsM == SeqsUpTo(CmdBytesM, MaxDrain)

\* mouse reports accumulated between two frames in the mouse path
MaxAccumM == 3

InitMouse ==
  /\ txInhibit = FALSE
  /\ keyInhibit = FALSE
  /\ msctrlAsserted = FALSE
  /\ currentLedLevel = 0
  /\ currentLedState = 0
  /\ keyRepeatDelay = 500
  /\ keyRepeatInterval = 110
  /\ lmbPressed = FALSE
  /\ rmbPressed = FALSE
  /\ prevReport = ZeroReport
  /\ keyRepeatKeyCode = \h00
  /\ keyRepeatCountdown = 0
  /\ \E a \in AccumStarts :
       /\ dx = a.dx
       /\ dy = a.dy
       /\ sumX = a.dx
       /\ sumY = a.dy
       /\ nAccum = a.n
  /\ op = "init"
  /\ arg = NoArg
  /\ kbOut = << >>
  /\ msOut = << >>
  /\ mouseCalls = 0
  /\ lastButtons = -1
  /\ btnSeen = 0
  /\ hostKeyInhibit = FALSE
  /\ nReports = 0
  /\ hist = << >>
  /\ kbLog = << >>
  /\ timer = NoTimer
  /\ pc = "idle"
  /\ loc = NoLoc
  /\ acct = NoAcct
  /\ readyLevel = TRUE
  /\ readyPending = {}

MouseReportM ==
  \E report \in MouseReportsM :
    /\ nAccum < MaxAccumM
    /\ MouseReportStep(report)
    /\ arg' = NoArg
    /\ UNCHANGED << seqVars, irqVars >>

PollM ==
  \E rx \in RxSeqsM :
    /\ PollStep(0, rx)
    /\ arg' = [deltaTime |-> 0, rx |-> rx]
    /\ UNCHANGED << seqVars, irqVars >>

MouseRequestM == MouseRequestStep /\ arg' = NoArg /\ UNCHANGED << seqVars, irqVars >>

ReadyEdgeM == ReadyEdgeStep /\ arg' = NoArg /\ UNCHANGED << seqVars, irqVars >>

ReadyIsrM == ReadyIsrStep /\ arg' = NoArg /\ UNCHANGED << seqVars, irqVars >>

NextMouse ==
  \/ MouseReportM
  \/ PollM
  \/ MouseRequestM
  \/ ReadyEdgeM
  \/ ReadyIsrM

SpecMouse == InitMouse /\ [][NextMouse]_vars

\* the frame the claim describes for the sums SX, SY and the buttons b
FrameAsClaimed(f, SX, SY, b) ==
  /\ Len(f) = 3
  /\ f[2] = SX % 256
  /\ f[3] = SY % 256
  /\ Bit(f[1], 0) = Bit(b, 0)
  /\ Bit(f[1], 1) = Bit(b, 1)
  /\ Bit(f[1], 2) = 0
  /\ Bit(f[1], 3) = 0
  /\ Bit(f[1], 4) = B2N(SX > 127)
  /\ Bit(f[1], 5) = B2N(SX < -128)
  /\ Bit(f[1], 6) = B2N(SY > 127)
  /\ Bit(f[1], 7) = B2N(SY < -128)

Int16 == -32768..32767

\* C7 as stated: every emitted frame carries the sums SX, SY of the deltas
\* delivered since the previous frame: their low bytes, the latest buttons
\* and the four flags SX > 127, SX < -128, SY > 127, SY < -128.
C7_FrameCarriesSums_Any ==
  [][msOut' # << >> => FrameAsClaimed(Bytes(msOut'), sumX, sumY, btnSeen)]_vars

\* C7 amended: the same, for sums SX and SY within -32768..32767.
C7_FrameCarriesSums ==
  [][(msOut' # << >> /\ sumX \in Int16 /\ sumY \in Int16)
       => FrameAsClaimed(Bytes(msOut'), sumX, sumY, btnSeen)]_vars

\* scenario S6: three reports of +100 and the frame 0x10, 0x2C, 0x00
C7_Witness ==
  /\ op = "msreq"
  /\ Bytes(msOut) = << \h10, \h2c, \h00 >>
  /\ nAccum = 0
  /\ sumX = 0

\* a handler that called sendMouse
Triggered == op' = "msreq" \/ (op' = "poll" /\ mouseCalls' > 0)

\* C8: a trigger while txInhibit is true writes nothing and keeps dx, dy,
\* lmb, rmb; a trigger while it is false writes three bytes, zeroes dx and
\* dy and keeps lmb, rmb, and when no mouse report came since the previous
\* frame the three bytes are that frame's button bits, 0, 0.
C8_EmissionEffect ==
  [][Triggered =>
       IF txInhibit
       THEN /\ msOut' = << >>
            /\ dx' = dx /\ dy' = dy
            /\ lmbPressed' = lmbPressed /\ rmbPressed' = rmbPressed
       ELSE /\ Len(msOut') = 3
            /\ dx' = 0 /\ dy' = 0
            /\ lmbPressed' = lmbPressed /\ rmbPressed' = rmbPressed
            /\ (nAccum = 0 /\ lastButtons # -1)
                 => Bytes(msOut') = << lastButtons, 0, 0 >>]_vars

\* a frame right after a frame, the left button still held
C8_Witness ==
  /\ op = "msreq"
  /\ ~txInhibit
  /\ Bytes(msOut) = << 1, 0, 0 >>
  /\ lastButtons = 1
  /\ dx = 0 /\ dy = 0

\* false-to-true transitions of msctrlAsserted along the command bytes rx
RECURSIVE Rises(_, _)
Rises(asserted, rx) ==
  IF rx = << >> THEN 0
  ELSE LET now == IF Head(rx) \div 8 = 8 THEN Head(rx) % 2 = 0 ELSE asserted
       IN (IF ~asserted /\ now THEN 1 ELSE 0) + Rises(now, Tail(rx))

\* C10: a poll calls sendMouse once for every false-to-true transition of
\* msctrlAsserted made by the command bytes it drains.
C10_EveryAssertTriggers ==
  [][op' = "poll" => mouseCalls' = Rises(msctrlAsserted, arg'.rx)]_vars

\* ------------------------------------------------------------------------
\* The mouse path with the main loop taken one memory access at a time and
\* the GPIO interrupt free to run between any two of them.
\* processMouseReport and a sendMouse called from processKeybAndMouse run
\* in the main loop (tuh_task and processKeybAndMouse, main.c:78-80);
\* gpioISR preempts them and runs to completion.
\*   pc = "idle"      between two handlers of the main loop
\*        "mr_btn"    processMouseReport, main.c:499-500
\*        "mr_ldx"    main.c:501, load of dx
\*        "mr_stx"    main.c:501, store of dx
\*        "mr_ldy"    main.c:502, load of dy
\*        "mr_sty"    main.c:502, store of dy
\*        "sm_test"   sendMouse, main.c:248
\*        "sm_build"  main.c:251-261
\*        "sm_write"  main.c:263, one byte per step
\*        "sm_rstx"   main.c:266
\*        "sm_rsty"   main.c:267
\* ------------------------------------------------------------------------
\* mouse reports delivered in a run
MaxIrqReports == 2

MouseReportsIrq ==
  { [buttons |-> 1, x |-> 10, y |-> -5], [buttons |-> 0, x |-> 3, y |-> 0] }

InitIrq ==
  /\ InitProgram
  /\ InitObserved
  /\ readyLevel = TRUE
  /\ readyPending = {}

\* what a step of the main loop leaves alone
MainKeeps ==
  /\ kbOut' = << >>
  /\ mouseCalls' = 0
  /\ op' = "main"
  /\ arg' = NoArg
  /\ UNCHANGED << txInhibit, keyInhibit, currentLedLevel, currentLedState,
                  keyRepeatDelay, keyRepeatInterval, keybVars, readyVars,
                  mouseHist, hostKeyInhibit, seqVars >>

\* tuh_task delivers a mouse report: processMouseReport is entered
MainMouseReport ==
  \E report \in MouseReportsIrq :
    /\ pc = "idle"
    /\ acct.n < MaxIrqReports
    /\ pc' = "mr_btn"
    /\ loc' = [loc EXCEPT !.report = report]
    /\ acct' = [acct EXCEPT !.n = @ + 1,
                            !.delivX = @ + report.x, !.delivY = @ + report.y]
    /\ msOut' = << >>
    /\ MainKeeps
    /\ UNCHANGED << msctrlAsserted, dx, dy, lmbPressed, rmbPressed >>

MainMouseButtons ==
  /\ pc = "mr_btn"
  /\ lmbPressed' = (BitAnd(loc.report.buttons, 1) # 0)
  /\ rmbPressed' = (BitAnd(loc.report.buttons, 2) # 0)
  /\ pc' = "mr_ldx"
  /\ msOut' = << >>
  /\ MainKeeps
  /\ UNCHANGED << msctrlAsserted, dx, dy, loc, acct >>

MainMouseLoad ==
  /\ pc \in {"mr_ldx", "mr_ldy"}
  /\ loc' = [loc EXCEPT !.reg = IF pc = "mr_ldx" THEN dx ELSE dy]
  /\ pc' = IF pc = "mr_ldx" THEN "mr_stx" ELSE "mr_sty"
  /\ msOut' = << >>
  /\ MainKeeps
  /\ UNCHANGED << msctrlAsserted, dx, dy, lmbPressed, rmbPressed, acct >>

MainMouseStore ==
  /\ pc \in {"mr_stx", "mr_sty"}
  /\ dx' = IF pc = "mr_stx" THEN ToInt16(loc.reg + loc.report.x) ELSE dx
  /\ dy' = IF pc = "mr_sty" THEN ToInt16(loc.reg + loc.report.y) ELSE dy
  /\ pc' = IF pc = "mr_stx" THEN "mr_ldy" ELSE "idle"
  /\ msOut' = << >>
  /\ MainKeeps
  /\ UNCHANGED << msctrlAsserted, lmbPressed, rmbPressed, loc, acct >>

\* processKeybAndMouse: the command bytes are drained and, on an edge of
\* msctrlAsserted, sendMouse is entered (no key is armed in these runs)
MainPoll ==
  \E rx \in {<< \h40 >>, << \h41 >>} :
    /\ pc = "idle"
    /\ msctrlAsserted' = uartISR([msctrl |-> msctrlAsserted,
                                  level |-> currentLedLevel,
                                  inhibit |-> keyInhibit,
                                  delay |-> keyRepeatDelay,
                                  interval |-> keyRepeatInterval,
                                  led |-> currentLedState], rx).msctrl
    /\ pc' = IF ~msctrlAsserted /\ msctrlAsserted' THEN "sm_test" ELSE "idle"
    /\ msOut' = << >>
    /\ MainKeeps
    /\ UNCHANGED << dx, dy, lmbPressed, rmbPressed, loc, acct >>

MainSendTest ==
  /\ pc = "sm_test"
  /\ pc' = IF txInhibit THEN "idle" ELSE "sm_build"
  /\ msOut' = << >>
  /\ MainKeeps
  /\ UNCHANGED << msctrlAsserted, dx, dy, lmbPressed, rmbPressed, loc, acct >>

MainSendBuild ==
  /\ pc = "sm_build"
  /\ loc' = [loc EXCEPT !.mdata = MouseData(lmbPressed, rmbPressed, dx, dy),
                        !.dx = dx, !.dy = dy]
  /\ pc' = "sm_write"
  /\ msOut' = << >>
  /\ MainKeeps
  /\ UNCHANGED << msctrlAsserted, dx, dy, lmbPressed, rmbPressed, acct >>

MainSendWrite ==
  /\ pc = "sm_write"
  /\ msOut' = << [byte |-> Head(loc.mdata), inh |-> txInhibit] >>
  /\ loc' = [loc EXCEPT !.mdata = Tail(@)]
  /\ pc' = IF Len(loc.mdata) = 1 THEN "sm_rstx" ELSE "sm_write"
  /\ acct' = IF Len(loc.mdata) = 1
             THEN [acct EXCEPT !.emitX = @ + loc.dx, !.emitY = @ + loc.dy]
             ELSE acct
  /\ MainKeeps
  /\ UNCHANGED << msctrlAsserted, dx, dy, lmbPressed, rmbPressed >>

MainSendReset ==
  /\ pc \in {"sm_rstx", "sm_rsty"}
  /\ dx' = IF pc = "sm_rstx" THEN 0 ELSE dx
  /\ dy' = IF pc = "sm_rsty" THEN 0 ELSE dy
  /\ pc' = IF pc = "sm_rstx" THEN "sm_rsty" ELSE "idle"
  /\ msOut' = << >>
  /\ MainKeeps
  /\ UNCHANGED << msctrlAsserted, lmbPressed, rmbPressed, loc, acct >>

\* the MSCTRL falling edge: gpioISR calls sendMouse, whatever pc is
IrqMouseRequest ==
  /\ MouseRequestStep
  /\ arg' = NoArg
  /\ acct' = IF msOut' # << >>
             THEN [acct EXCEPT !.emitX = @ + dx, !.emitY = @ + dy]
             ELSE acct
  /\ UNCHANGED << pc, loc, seqVars >>

IrqReadyEdge == ReadyEdgeStep /\ arg' = NoArg /\ UNCHANGED << seqVars, irqVars >>

IrqReady == ReadyIsrStep /\ arg' = NoArg /\ UNCHANGED << seqVars, irqVars >>

NextIrq ==
  \/ MainMouseReport
  \/ MainMouseButtons
  \/ MainMouseLoad
  \/ MainMouseStore
  \/ MainPoll
  \/ MainSendTest
  \/ MainSendBuild
  \/ MainSendWrite
  \/ MainSendReset
  \/ IrqMouseRequest
  \/ IrqReadyEdge
  \/ IrqReady

SpecIrq == InitIrq /\ [][NextIrq]_vars

\* C9: between two handlers of the main loop, the deltas carried by the
\* emitted frames plus the accumulators equal the deltas delivered: no
\* delta is lost and none is reported twice.
C9_EveryDeltaOnce ==
  pc = "idle" =>
    /\ acct.emitX + dx = acct.delivX
    /\ acct.emitY + dy = acct.delivY

\* ------------------------------------------------------------------------
\* The command parser on its own: processKeybAndMouse finds one byte in the
\* receive FIFO, any of the 256, and no time has passed (deltaTime 0, so
\* the repeat timer part of the poll does nothing).  A run starts either
\* at boot or in a state with every field away from its boot value, which
\* the program reaches by the commands 0x57 0x6f 0x7f 0xff, two mouse
\* reports and the press of HID_KEY_A.  hist keeps the bytes consumed.
\* ------------------------------------------------------------------------
\* number of command bytes of a run
MaxCmds == 1

AllBytes == 0..255

CmdStarts ==
  { [level |-> 0, led |-> 0, delay |-> 500, interval |-> 110,
     dx |-> 0, dy |-> 0, n |-> 0, lmb |-> FALSE,
     report |-> ZeroReport, code |-> \h00, cd |-> 0],
    [level |-> 3, led |-> \h7f, delay |-> 1700, interval |-> 1155,
     dx |-> 13, dy |-> -7, n |-> 2, lmb |-> TRUE,
     report |-> [modifier |-> \h00, keycode |-> Keys(HID_KEY_A, 0, 0)],
     code |-> HID_KEY_A, cd |-> 1700] }

InitCmd ==
  /\ txInhibit = FALSE
  /\ keyInhibit = FALSE
  /\ msctrlAsserted = FALSE
  /\ rmbPressed = FALSE
  /\ \E s \in CmdStarts :
       /\ currentLedLevel = s.level
       /\ currentLedState = s.led
       /\ keyRepeatDelay = s.delay
       /\ keyRepeatInterval = s.interval
       /\ dx = s.dx
       /\ dy = s.dy
       /\ sumX = s.dx
       /\ sumY = s.dy
       /\ nAccum = s.n
       /\ lmbPressed = s.lmb
       /\ prevReport = s.report
       /\ keyRepeatKeyCode = s.code
       /\ keyRepeatCountdown = s.cd
  /\ op = "init"
  /\ arg = NoArg
  /\ kbOut = << >>
  /\ msOut = << >>
  /\ mouseCalls = 0
  /\ lastButtons = -1
  /\ btnSeen = 0
  /\ hostKeyInhibit = FALSE
  /\ nReports = 0
  /\ hist = << >>
  /\ kbLog = << >>
  /\ timer = NoTimer
  /\ pc = "idle"
  /\ loc = NoLoc
  /\ acct = NoAcct
  /\ readyLevel = TRUE
  /\ readyPending = {}

PollCmd ==
  \E ch \in AllBytes :
    /\ Len(hist) < MaxCmds
    /\ PollStep(0, << ch >>)
    /\ arg' = [deltaTime |-> 0, rx |-> << ch >>]
    /\ hist' = Append(hist, ch)
    /\ UNCHANGED << nReports, kbLog, timer, irqVars >>

NextCmd == PollCmd

SpecCmd == InitCmd /\ [][NextCmd]_vars

\* the rows of the command table, by the value of the prefix bits
IsMsctrl(b) == b \div 8 = 8
IsLedBrightness(b) == b \div 4 = 21
IsKeyInhibit(b) == b \div 8 = 11
IsRepeatDelay(b) == b \div 16 = 6
IsRepeatInterval(b) == b \div 16 = 7
IsLedCtrl(b) == b \div 128 = 1

RowsMatched(b) ==
  { r \in 1..6 : \/ r = 1 /\ IsMsctrl(b)
                 \/ r = 2 /\ IsLedBrightness(b)
                 \/ r = 3 /\ IsKeyInhibit(b)
                 \/ r = 4 /\ IsRepeatDelay(b)
                 \/ r = 5 /\ IsRepeatInterval(b)
                 \/ r = 6 /\ IsLedCtrl(b) }

\* C11: after the parser has consumed a key-inhibit byte b (01011xxx),
\* keyInhibit is true exactly when bit 0 of b is clear.
C11_KeyInhibitFollowsBit0 ==
  (op = "poll" /\ IsKeyInhibit(arg.rx[1]))
    => (keyInhibit <=> (arg.rx[1] % 2 = 0))

\* what the table asks of the byte b, the key-inhibit row aside
TableRule(b) ==
  /\ Cardinality(RowsMatched(b)) <= 1
  /\ msctrlAsserted' = IF IsMsctrl(b) THEN (b % 2 = 0) ELSE msctrlAsserted
  /\ currentLedLevel' = IF IsLedBrightness(b) THEN b % 4 ELSE currentLedLevel
  /\ keyRepeatDelay' = IF IsRepeatDelay(b) THEN 200 + (b % 16) * 100
                       ELSE keyRepeatDelay
  /\ keyRepeatInterval' = IF IsRepeatInterval(b)
                          THEN 30 + (b % 16) * (b % 16) * 5
                          ELSE keyRepeatInterval
  /\ currentLedState' = IF IsLedCtrl(b) THEN b % 128 ELSE currentLedState
  /\ IsKeyInhibit(b) \/ keyInhibit' = keyInhibit
  /\ txInhibit' = txInhibit

\* C12: every byte 0..255 is handled by the one row of the table it
\* matches, no byte matches two rows, no other configuration field changes,
\* and the repeat delay (200..1700) and interval (30..1155) are stored
\* whole.
C12_OneRowPerByte ==
  [][op' = "poll" => TableRule(arg'.rx[1])]_vars

C12_Witness ==
  /\ op = "poll"
  /\ arg.rx = << \h65 >>
  /\ keyRepeatDelay = 700
  /\ currentLedLevel = 3

\* C13: a byte matching no row of the table (00xxxxxx, 01001xxx, 010100xx)
\* changes no field of the program and writes to neither sink.
C13_UnknownByteIgnored ==
  [][(op' = "poll" /\ RowsMatched(arg'.rx[1]) = {})
       => /\ UNCHANGED progVars
          /\ kbOut' = << >>
          /\ msOut' = << >>]_vars

C13_Witness ==
  /\ op = "poll"
  /\ arg.rx = << \h48 >>
  /\ dx = 13
  /\ keyRepeatKeyCode = HID_KEY_A
  /\ ~msctrlAsserted

\* ------------------------------------------------------------------------
\* The repeat timer: keyboard reports and ticks of the main loop, READY
\* high, with the boot repeat configuration or the shortest one the host
\* can set (commands 0x60 and 0x70).  No command byte arrives during a run.
\* timer follows the keys from the reports and the time from the ticks.
\* ------------------------------------------------------------------------
RepeatCfgs ==
  { [delay |-> 500, interval |-> 110],
    [delay |-> 200, interval |-> 30] }

ReportsR ==
  { ZeroReport,
    [modifier |-> \h00, keycode |-> Keys(\h04, 0, 0)],
    [modifier |-> \h02, keycode |-> Keys(\h04, 0, 0)],
    [modifier |-> \h00, keycode |-> Keys(\h04, \h05, 0)],
    [modifier |-> \h00, keycode |-> Keys(\h05, 0, \h04)],
    [modifier |-> \h00, keycode |-> Keys(\h65, 0, 0)],
    [modifier |-> \h00, keycode |-> Keys(\h01, \h01, \h01)] }

\* deltaTime of a tick, in ms
TickDeltasR == {0, 100, 250}

InitRepeat ==
  /\ txInhibit = FALSE
  /\ keyInhibit = FALSE
  /\ msctrlAsserted = FALSE
  /\ currentLedLevel = 0
  /\ currentLedState = 0
  /\ \E c \in RepeatCfgs :
       /\ keyRepeatDelay = c.delay
       /\ keyRepeatInterval = c.interval
  /\ dx = 0
  /\ dy = 0
  /\ lmbPressed = FALSE
  /\ rmbPressed = FALSE
  /\ prevReport = ZeroReport
  /\ keyRepeatKeyCode = \h00
  /\ keyRepeatCountdown = 0
  /\ InitObserved
  /\ readyLevel = TRUE
  /\ readyPending = {}

\* the keycode a report newly brings that stands last in slot order, 0 if
\* it brings none (the codes 0x00..0x03 are not keys)
LastNew(prev, cur) ==
  LET new == {i \in 1..NumSlots :
                cur.keycode[i] > \h03 /\ cur.keycode[i] \notin Held(prev)}
  IN IF new = {} THEN 0
     ELSE cur.keycode[CHOOSE i \in new : \A j \in new : j <= i]

TimerAfterReport(report) ==
  IF LastNew(prevReport, report) # 0
  THEN [key |-> LastNew(prevReport, report), phase |-> "delay", elapsed |-> 0]
  ELSE IF timer.key \notin Held(report) THEN NoTimer
  ELSE timer

\* the period the timer is in has run out once dt more ms have passed
Due(dt) ==
  /\ timer.phase # "idle"
  /\ timer.elapsed + dt >=
       (IF timer.phase = "delay" THEN keyRepeatDelay ELSE keyRepeatInterval)

TimerAfterTick(dt) ==
  IF timer.phase = "idle" THEN timer
  ELSE IF Due(dt) THEN [timer EXCEPT !.phase = "interval", !.elapsed = 0]
  ELSE [timer EXCEPT !.elapsed = @ + dt]

KeybReportR ==
  \E report \in ReportsR :
    /\ KeybReportStep(report)
    /\ arg' = [report |-> report]
    /\ timer' = TimerAfterReport(report)
    /\ UNCHANGED << nReports, hist, kbLog, irqVars >>

TickR ==
  \E deltaTime \in TickDeltasR :
    /\ PollStep(deltaTime, << >>)
    /\ arg' = [deltaTime |-> deltaTime, rx |-> << >>]
    /\ timer' = TimerAfterTick(deltaTime)
    /\ UNCHANGED << nReports, hist, kbLog, irqVars >>

NextRepeat == KeybReportR \/ TickR

SpecRepeat == InitRepeat /\ [][NextRepeat]_vars

\* the make byte of a key, as a byte sequence (none for a key without a
\* scancode)
MakeOf(k) ==
  IF k \in Translatable THEN << keycodeScans[k - \h04 + 1] >> ELSE << >>

\* C14: with a key pressed last and still held, a tick writes the key's
\* make exactly when the time delivered since the press reaches
\* keyRepeatDelay for the first repeat, or the time delivered since the
\* previous repeat reaches keyRepeatInterval for a later one; every other
\* tick, and every tick without such a key, writes nothing.
C14_RepeatWhenDue ==
  [][op' = "poll"
       => Bytes(kbOut') = IF Due(arg'.deltaTime) THEN MakeOf(timer.key)
                          ELSE << >>]_vars

\* a repeat of HID_KEY_A written by a tick of 100 ms, interval 110
C14_Witness ==
  /\ op = "poll"
  /\ arg.deltaTime = 100
  /\ keyRepeatInterval = 110
  /\ Bytes(kbOut) = << \h1e >>
  /\ timer.phase = "interval"
  /\ keyRepeatCountdown = 110

\* ------------------------------------------------------------------------
\* Runs of keyboard reports and ticks of 100 ms from boot (repeat delay
\* 500, interval 110), READY high, with the events and the bytes written to
\* the keyboard sink kept as history
\* ------------------------------------------------------------------------
\* number of events (reports and ticks) of a run
MaxEvents == 10

Event(kind, deltaTime, report) ==
  [kind |-> kind, deltaTime |-> deltaTime, report |-> report]

ReportA == [modifier |-> \h00, keycode |-> Keys(HID_KEY_A, 0, 0)]

ReportsS3 == { ReportA, ZeroReport }

\* deltaTime of a tick, in ms
TickDeltasS3 == {100}

KeybReportS3 ==
  \E report \in ReportsS3 :
    /\ Len(hist) < MaxEvents
    /\ KeybReportStep(report)
    /\ arg' = [report |-> report]
    /\ hist' = Append(hist, Event("report", 0, report))
    /\ kbLog' = kbLog \o kbOut'
    /\ UNCHANGED << nReports, timer, irqVars >>

TickS3 ==
  \E deltaTime \in TickDeltasS3 :
    /\ Len(hist) < MaxEvents
    /\ PollStep(deltaTime, << >>)
    /\ arg' = [deltaTime |-> deltaTime, rx |-> << >>]
    /\ hist' = Append(hist, Event("tick", deltaTime, ZeroReport))
    /\ kbLog' = kbLog \o kbOut'
    /\ UNCHANGED << nReports, timer, irqVars >>

NextS3 == KeybReportS3 \/ TickS3

SpecS3 == InitKeyb /\ [][NextS3]_vars

\* scenario S3: HID_KEY_A pressed at t=0, the ticks of t=100..700, the
\* release at t=750, the tick of t=800
S3Events ==
  << Event("report", 0, ReportA) >>
    \o [i \in 1..7 |-> Event("tick", 100, ZeroReport)]
    \o << Event("report", 0, ZeroReport), Event("tick", 100, ZeroReport) >>

\* C15 as stated: in scenario S3 the keyboard sink receives the make 0x1e,
\* three repeat makes 0x1e, then the break 0x9e and nothing after it.
C15_S3_ThreeRepeats ==
  hist = S3Events => Bytes(kbLog) = << \h1e, \h1e, \h1e, \h1e, \h9e >>

\* what the sink holds after the first n events of S3: the make, a repeat
\* from the tick of t=500 (event 6), a second one from the tick of t=700
\* (event 8), the break from the release (event 9)
S3Bytes(n) ==
  SubSeq(<< \h1e, \h1e, \h1e, \h9e >>, 1,
         IF n < 6 THEN 1 ELSE IF n < 8 THEN 2 ELSE IF n < 9 THEN 3 ELSE 4)

\* C15: in scenario S3 the keyboard sink receives the make 0x1e at t=0, a
\* repeat make 0x1e at the tick of t=500 and another at the tick of t=700,
\* then the break 0x9e at t=750, and no byte after the break.
C15_S3 ==
  (/\ hist # << >>
   /\ Len(hist) <= Len(S3Events)
   /\ hist = SubSeq(S3Events, 1, Len(hist)))
    => Bytes(kbLog) = S3Bytes(Len(hist))

C15_Witness ==
  /\ hist = S3Events
  /\ op = "poll"
  /\ Bytes(kbLog) = << \h1e, \h1e, \h1e, \h9e >>
  /\ keyRepeatKeyCode = \h00

\* C16: one key at a time is armed for repeat.  A report bringing new
\* keycodes arms the one standing last in slot order, with the countdown at
\* keyRepeatDelay; a report whose keycodes are those of the previous report
\* (only modifier bits differ) leaves the armed key and the countdown
\* alone; a report that drops the armed key and brings no new one disarms
\* the timer; a tick writes a repeat make only for a keycode of the latest
\* report, and none while no key is armed.
C16_Report ==
  /\ LastNew(prevReport, arg'.report) # 0
       => /\ keyRepeatKeyCode' = LastNew(prevReport, arg'.report)
          /\ keyRepeatCountdown' = keyRepeatDelay
  /\ arg'.report.keycode = prevReport.keycode
       => UNCHANGED << keyRepeatKeyCode, keyRepeatCountdown >>
  /\ (/\ keyRepeatKeyCode # 0
      /\ keyRepeatKeyCode \notin Held(arg'.report)
      /\ LastNew(prevReport, arg'.report) = 0)
       => /\ keyRepeatKeyCode' = 0
          /\ keyRepeatCountdown' = 0

C16_Tick ==
  /\ kbOut' # << >>
       => \E k \in Held(prevReport') : k # 0 /\ Bytes(kbOut') = MakeOf(k)
  /\ keyRepeatKeyCode = 0 => kbOut' = << >>

C16_OneArmedKey ==
  [][/\ op' = "keyb" => C16_Report
     /\ op' = "poll" => C16_Tick]_vars

\* HID_KEY_B pressed while HID_KEY_A is held, and repeated by a tick
C16_Witness ==
  /\ op = "poll"
  /\ prevReport.keycode = Keys(\h04, \h05, 0)
  /\ keyRepeatKeyCode = \h05
  /\ Bytes(kbOut) = MakeOf(\h05)
  /\ kbOut # << >>

\* C20: between handlers keyRepeatCountdown is positive exactly when a key
\* is armed (keyRepeatKeyCode # 0) and zero exactly when none is; it is
\* never negative; an armed keycode is above 0x03 and is one of the
\* keycodes of prevReport.
C20_RepeatStateInvariant ==
  /\ keyRepeatCountdown > 0 <=> keyRepeatKeyCode # 0
  /\ keyRepeatCountdown = 0 <=> keyRepeatKeyCode = 0
  /\ keyRepeatCountdown >= 0
  /\ keyRepeatKeyCode # 0
       => keyRepeatKeyCode > \h03 /\ isPresentInReport(prevReport, keyRepeatKeyCode)

\* after a tick that overshot the countdown (250 ms against an interval of
\* 110) and wrote a repeat
C20_Witness ==
  /\ op = "poll"
  /\ arg.deltaTime = 250
  /\ kbOut # << >>
  /\ keyRepeatKeyCode = \h04
  /\ keyRepeatCountdown = 110
  /\ timer.phase = "interval"

\* C17: when gpioISR has run for the latched edges of the READY pin,
\* txInhibit is true exactly when the line is low, whatever the level at
\* boot and whatever edges were latched (a falling and a rising edge
\* handed over in one invocation included).
C17_TxInhibitTracksReady ==
  op = "ready" => (txInhibit <=> ~readyLevel)

Clamp16(v) == IF v > 32767 THEN 32767 ELSE IF v < -32768 THEN -32768 ELSE v

\* C18: a mouse report adds its deltas to dx and dy with saturation: a sum
\* above 32767 or below -32768 leaves the accumulator at that bound, so
\* deltas of one sign never flip the sign of dx or dy.
C18_SaturatingAccumulate ==
  [][op' = "mouse"
       => /\ dx' = Clamp16(dx + (sumX' - sumX))
          /\ dy' = Clamp16(dy + (sumY' - sumY))]_vars

\* the main loop has written one or two of the three bytes of its frame
MidFrame == pc = "sm_write" /\ Len(loc.mdata) < 3

\* C19: the mouse sink receives whole frames of three bytes one after the
\* other: no frame is written while the main loop stands between two
\* bytes of another frame, a mouse-request interrupt during a sendMouse
\* started by an MSCTRL command included; and the steps of
\* processMouseReport write nothing.
C19_WholeFrames ==
  [][/\ (op' = "msreq" /\ msOut' # << >>) => ~MidFrame
     /\ pc \in {"mr_btn", "mr_ldx", "mr_stx", "mr_ldy", "mr_sty"} /\ op' = "main"
          => msOut' = << >>]_vars

=============================================================================
